---- MODULE Spec2Model ----
(***************************************************************************)
(* Model of smithay's wayland::data_device module                          *)
(* (src/wayland/data_device/mod.rs): the per-seat selection registry       *)
(* SeatData, the wl_data_device_manager / wl_data_device request handlers, *)
(* the Receive handlers of selection data offers and the default DnD       *)
(* action chooser.                                                         *)
(***************************************************************************)
EXTENDS Integers, Sequences, FiniteSets, TLC

\* ---------------------------------------------------------------- bounds
Clients == {"A", "B"}
NoClient == "none"
DeviceIds == {1, 2, 3}
\* the data devices created where offers and events multiply the states
FewDeviceIds == {1, 2}
SourceIds == {1}
MaxOffers == 2
MimeTypes == {"text/plain", "image/png"}
SourceMimeLists == {<<"text/html", "text/plain">>}
CompositorMimeLists == {<<"image/png", "text/html">>}
Fds == {7}
Serials == {1, 2}
\* threads that may call into the module at the same time
Threads == {1, 2}

\* DndAction bitflags of wl_data_device_manager
DndNone == 0
DndCopy == 1
DndMove == 2
DndAsk == 4
DndActions == 0..7

VARIABLES
    alive_clients,   \* clients that are still connected
    dd_client,       \* wl_data_device handles ever created: handle -> client
    dd_released,     \* data devices destroyed by their Release request
    src_client,      \* wl_data_source handles ever created: handle -> client
    src_meta,        \* SourceMetadata attached to each source
    src_destroyed,   \* sources destroyed by their client
    offers,          \* wl_data_offer handles ever created, with what their
                     \* Receive closure captured
    seat_data,       \* TRUE once the seat's user_data holds a Mutex<SeatData>
    known_devices,   \* SeatData.known_devices
    selection,       \* SeatData.selection
    current_focus,   \* SeatData.current_focus
    pointer,         \* the seat's pointer: present or not, current grab
    events,          \* what the last step emitted, in emission order
    available,       \* default_action_chooser: first argument
    preferred,       \* default_action_chooser: second argument
    chosen,          \* default_action_chooser: result, -1 before the call
    mutex,           \* the thread holding the Mutex<SeatData>, 0 when free
    pc,              \* where each thread stands in its call
    call,            \* the call each thread is running, with its arguments
    seen             \* (selection, current_focus, known_devices) as each
                     \* thread left them when it replaced its field

vars == <<alive_clients, dd_client, dd_released, src_client, src_meta,
          src_destroyed, offers, seat_data, known_devices, selection,
          current_focus, pointer, events,
          available, preferred, chosen, mutex, pc, call, seen>>

chooser_vars == <<available, preferred, chosen>>
resource_vars == <<alive_clients, dd_client, dd_released, src_client,
                   src_meta, src_destroyed>>
input_vars == <<pointer>>
thread_vars == <<mutex, pc, call, seen>>

\* ------------------------------------------------------------ data model
NoMeta == [mime_types |-> <<>>, dnd_action |-> DndNone]

SourceMetadata(mimes, action) == [mime_types |-> mimes, dnd_action |-> action]

SelectionEmpty == [tag |-> "Empty", source |-> 0, meta |-> NoMeta]
SelectionClient(s) == [tag |-> "Client", source |-> s, meta |-> NoMeta]
SelectionCompositor(m) == [tag |-> "Compositor", source |-> 0, meta |-> m]

NoGrab == [kind |-> "none", serial |-> 0, source |-> 0, meta |-> NoMeta]

\* a thread that is in no call
NoCall == [op |-> "none", client |-> NoClient, sel |-> SelectionEmpty,
           dd |-> 0]

Triple(sel, focus, devs) ==
    [selection |-> sel, current_focus |-> focus, known_devices |-> devs]

NoTriple == Triple(SelectionEmpty, NoClient, <<>>)

\* one emitted effect: an event on a resource, a callback invocation or a
\* close(fd)
Ev(type, dev, offer, src, mime, fd) ==
    [type |-> type, dev |-> dev, offer |-> offer, src |-> src,
     mime |-> mime, fd |-> fd]

EvDataOffer(dd, o) == Ev("DataOffer", dd, o, 0, "", 0)
EvSelection(dd, o) == Ev("Selection", dd, o, 0, "", 0)
EvOffer(o, mime) == Ev("Offer", 0, o, 0, mime, 0)
EvSend(s, mime, fd) == Ev("Send", 0, 0, s, mime, fd)
EvClose(fd) == Ev("Close", 0, 0, 0, "", fd)
CbNewSelection(s) == Ev("NewSelection", 0, 0, s, "", 0)
CbDnDStarted(s) == Ev("DnDStarted", 0, 0, s, "", 0)
CbSendSelection(mime, fd) == Ev("SendSelection", 0, 0, 0, mime, fd)
\* the selection was reset to Empty because its source is dead
SelectionReset(s) == Ev("selection reset", 0, 0, s, "", 0)
\* the debug! lines of the denying branches
LogDenyReceive(o, mime) ==
    Ev("debug: Denying a wl_data_offer.receive", 0, o, 0, mime, 0)
LogDenyDrag == Ev("debug: denying drag", 0, 0, 0, "", 0)
LogDenySelection == Ev("debug: denying setting selection", 0, 0, 0, "", 0)
\* an unwrap() reached with a missing value; `site` names the expression
Panic(site) == Ev("panic", 0, 0, 0, site, 0)

Range(s) == {s[i] : i \in 1..Len(s)}

\* --------------------------------------------------- resource liveness
dd_alive(dd) == dd_client[dd] \in alive_clients /\ dd \notin dd_released

source_alive(s) == src_client[s] \in alive_clients /\ s \notin src_destroyed

offer_alive(o) == offers[o].client \in alive_clients

with_source_metadata(s) == src_meta[s]

\* with_source_metadata(..) is Err
with_source_metadata_err(s) == ~source_alive(s)

\* client.create_resource(..) is None
create_resource_none(client) == client \notin alive_clients

Contains(seq, x) == \E i \in 1..Len(seq) : seq[i] = x

\* ------------------------------------------------ SeatData::send_selection
cleanup_Never(sel) == FALSE

cleanup(sel) == sel.tag = "Client" /\ ~source_alive(sel.source)

sanitize(sel) == IF cleanup(sel) THEN SelectionEmpty ELSE sel

SkipDevice_DeadOnly(dd, client) == ~dd_alive(dd)

SkipDevice_OtherClientOnly(dd, client) == dd_client[dd] # client

SkipDevice(dd, client) == ~dd_alive(dd) \/ dd_client[dd] # client

selection_meta(sel) ==
    IF sel.tag = "Client" THEN with_source_metadata(sel.source) ELSE sel.meta

new_offer(sel, client) ==
    [client |-> client, kind |-> sel.tag, source |-> sel.source,
     meta |-> sel.meta]

offer_events_FirstOnly(o, mimes) ==
    IF mimes = <<>> THEN <<>> ELSE <<EvOffer(o, Head(mimes))>>

offer_events_Reversed(o, mimes) ==
    [i \in 1..Len(mimes) |-> EvOffer(o, mimes[Len(mimes) + 1 - i])]

RECURSIVE offer_events(_, _)
offer_events(o, mimes) ==
    IF mimes = <<>> THEN <<>>
    ELSE <<EvOffer(o, Head(mimes))>> \o offer_events(o, Tail(mimes))

advertize_FirstOffer(dd, o, mimes) ==
    <<EvDataOffer(dd, 1)>> \o offer_events(1, mimes) \o <<EvSelection(dd, 1)>>

advertize(dd, o, mimes) ==
    <<EvDataOffer(dd, o)>> \o offer_events(o, mimes) \o <<EvSelection(dd, o)>>

RECURSIVE send_loop(_, _, _, _)
send_loop(devs, sel, client, offs) ==
    IF devs = <<>> THEN [offers |-> offs, events |-> <<>>]
    ELSE LET dd == Head(devs) IN
         IF SkipDevice(dd, client)
         THEN send_loop(Tail(devs), sel, client, offs)
         ELSE IF sel.tag = "Empty"
         THEN LET r == send_loop(Tail(devs), sel, client, offs) IN
              [offers |-> r.offers,
               events |-> <<EvSelection(dd, 0)>> \o r.events]
         ELSE IF create_resource_none(client)
         THEN [offers |-> offs, events |-> <<Panic("create_resource")>>]
         ELSE IF sel.tag = "Client" /\ with_source_metadata_err(sel.source)
         THEN [offers |-> Append(offs, new_offer(sel, client)),
               events |-> <<EvDataOffer(dd, Len(offs) + 1),
                            Panic("with_source_metadata")>>]
         ELSE LET o == Len(offs) + 1
                  r == send_loop(Tail(devs), sel, client,
                                 Append(offs, new_offer(sel, client)))
              IN  [offers |-> r.offers,
                   events |-> advertize(dd, o, selection_meta(sel).mime_types)
                              \o r.events]

send_selection_NoFocusCheck(sel, focus, devs, offs) ==
    LET r == send_loop(devs, sanitize(sel), focus, offs) IN
    [selection |-> sanitize(sel), offers |-> r.offers,
     events |-> (IF cleanup(sel) THEN <<SelectionReset(sel.source)>>
                 ELSE <<>>) \o r.events]

send_selection(sel, focus, devs, offs) ==
    IF focus = NoClient
    THEN [selection |-> sel, offers |-> offs, events |-> <<>>]
    ELSE LET r == send_loop(devs, sanitize(sel), focus, offs) IN
         [selection |-> sanitize(sel), offers |-> r.offers,
          events |-> (IF cleanup(sel) THEN <<SelectionReset(sel.source)>>
                      ELSE <<>>) \o r.events]

\* ------------------------------------------------------------------ Init
Init ==
    /\ alive_clients = Clients
    /\ dd_client = <<>>
    /\ dd_released = {}
    /\ src_client = <<>>
    /\ src_meta = <<>>
    /\ src_destroyed = {}
    /\ offers = <<>>
    /\ seat_data = FALSE
    /\ known_devices = <<>>
    /\ selection = SelectionEmpty
    /\ current_focus = NoClient
    /\ pointer = [present |-> FALSE, grab |-> NoGrab]
    /\ events = <<>>
    /\ available = 0
    /\ preferred = 0
    /\ chosen = -1
    /\ mutex = 0
    /\ pc = [t \in Threads |-> "idle"]
    /\ call = [t \in Threads |-> NoCall]
    /\ seen = [t \in Threads |-> NoTriple]

\* --------------------------------------------------- set_data_device_focus
set_focus_Stale(new_focus) ==
    send_selection(selection, current_focus, known_devices, offers)

set_focus(new_focus) ==
    send_selection(selection, new_focus, known_devices, offers)

set_data_device_focus(client) ==
    LET r == set_focus(client) IN
    /\ Len(r.offers) <= MaxOffers
    /\ seat_data' = TRUE
    /\ current_focus' = client
    /\ selection' = r.selection
    /\ offers' = r.offers
    /\ events' = r.events
    /\ UNCHANGED <<resource_vars, known_devices, input_vars, chooser_vars,
                   thread_vars>>

\* ----------------------------------------------- set_data_device_selection
set_selection(new_selection) ==
    send_selection(new_selection, current_focus, known_devices, offers)

set_data_device_selection(mime_types) ==
    LET r == set_selection(SelectionCompositor(
                 SourceMetadata(mime_types, DndNone))) IN
    /\ Len(r.offers) <= MaxOffers
    /\ seat_data' = TRUE
    /\ selection' = r.selection
    /\ offers' = r.offers
    /\ events' = r.events
    /\ UNCHANGED <<resource_vars, known_devices, current_focus, input_vars,
                   chooser_vars,
                   thread_vars>>

\* ------------------------------------------------------------- start_dnd
start_dnd_NoPointerCheck(serial, metadata) ==
    /\ seat_data' = TRUE
    /\ pointer' = [pointer EXCEPT !.grab =
                      [kind |-> "server_dnd", serial |-> serial,
                       source |-> 0, meta |-> metadata]]
    /\ events' = <<>>
    /\ UNCHANGED <<resource_vars, offers, known_devices, selection,
                   current_focus, chooser_vars, thread_vars>>

start_dnd(serial, metadata) ==
    /\ seat_data' = TRUE
    /\ pointer' = IF pointer.present
                  THEN [pointer EXCEPT !.grab =
                           [kind |-> "server_dnd", serial |-> serial,
                            source |-> 0, meta |-> metadata]]
                  ELSE pointer
    /\ events' = <<>>
    /\ UNCHANGED <<resource_vars, offers, known_devices, selection,
                   current_focus, chooser_vars,
                   thread_vars>>

\* ------------------------------------- implement_ddm: wl_data_device_manager
CreateDataSource(client, mime_types) ==
    /\ client \in alive_clients
    /\ Len(src_client) + 1 \in SourceIds
    /\ src_client' = Append(src_client, client)
    /\ src_meta' = Append(src_meta, SourceMetadata(mime_types, DndNone))
    /\ events' = <<>>
    /\ UNCHANGED <<alive_clients, dd_client, dd_released, src_destroyed,
                   offers, seat_data, known_devices, selection, current_focus,
                   input_vars, chooser_vars,
                   thread_vars>>

GetDataDevice(client) ==
    /\ client \in alive_clients
    /\ Len(dd_client) + 1 \in DeviceIds
    /\ seat_data' = TRUE
    /\ dd_client' = Append(dd_client, client)
    /\ known_devices' = Append(known_devices, Len(dd_client) + 1)
    /\ events' = <<>>
    /\ UNCHANGED <<alive_clients, dd_released, src_client, src_meta,
                   src_destroyed, offers, selection, current_focus,
                   input_vars, chooser_vars,
                   thread_vars>>

\* -------------------------------------- implement_data_device: wl_data_device
\* the sources a client can name in a request: none, or one of its own
\* live wl_data_source objects
OwnSources(client) ==
    {0} \cup {s \in 1..Len(src_client) :
                 src_client[s] = client /\ source_alive(s)}

has_grab(serial) ==
    pointer.grab.kind # "none" /\ pointer.grab.serial = serial

StartDragAllowed_AnySerial(serial) ==
    pointer.present /\ pointer.grab.kind # "none"

StartDragAllowed(serial) == pointer.present /\ has_grab(serial)

StartDrag(dd, source, serial) ==
    /\ dd \in 1..Len(dd_client)
    /\ dd_alive(dd)
    /\ source \in OwnSources(dd_client[dd])
    /\ IF StartDragAllowed(serial)
       THEN /\ events' = <<CbDnDStarted(source)>>
            /\ pointer' = [pointer EXCEPT !.grab =
                              [kind |-> "dnd", serial |-> serial,
                               source |-> source, meta |-> NoMeta]]
       ELSE /\ events' = <<LogDenyDrag>>
            /\ pointer' = pointer
    /\ UNCHANGED <<resource_vars, offers, seat_data, known_devices, selection,
                   current_focus, chooser_vars,
                   thread_vars>>

\* what the seat answers to get_keyboard() and has_focus(client) when the
\* request is handled
KeyboardAnswers == {"no keyboard", "no focus", "has focus"}

SetSelectionAllowed_AnyKeyboard(kbd) == kbd # "no keyboard"

SetSelectionAllowed(kbd) == kbd = "has focus"

SetSelection_CallbackLast(dd, source, serial, kbd) ==
    /\ dd \in 1..Len(dd_client)
    /\ dd_alive(dd)
    /\ source \in OwnSources(dd_client[dd])
    /\ IF SetSelectionAllowed(kbd) /\ ~seat_data
       THEN /\ events' = <<Panic("seat_data")>>
            /\ UNCHANGED <<selection, offers>>
       ELSE IF SetSelectionAllowed(kbd)
       THEN LET r == set_selection(IF source # 0 THEN SelectionClient(source)
                                   ELSE SelectionEmpty) IN
            /\ Len(r.offers) <= MaxOffers
            /\ selection' = r.selection
            /\ offers' = r.offers
            /\ events' = r.events \o <<CbNewSelection(source)>>
       ELSE /\ events' = <<LogDenySelection>>
            /\ UNCHANGED <<selection, offers>>
    /\ UNCHANGED <<resource_vars, seat_data, known_devices, current_focus,
                   input_vars, chooser_vars,
                   thread_vars>>

SetSelection(dd, source, serial, kbd) ==
    /\ dd \in 1..Len(dd_client)
    /\ dd_alive(dd)
    /\ source \in OwnSources(dd_client[dd])
    /\ IF SetSelectionAllowed(kbd) /\ ~seat_data
       THEN /\ events' = <<Panic("seat_data")>>
            /\ UNCHANGED <<selection, offers>>
       ELSE IF SetSelectionAllowed(kbd)
       THEN LET r == set_selection(IF source # 0 THEN SelectionClient(source)
                                   ELSE SelectionEmpty) IN
            /\ Len(r.offers) <= MaxOffers
            /\ selection' = r.selection
            /\ offers' = r.offers
            /\ events' = <<CbNewSelection(source)>> \o r.events
       ELSE /\ events' = <<LogDenySelection>>
            /\ UNCHANGED <<selection, offers>>
    /\ UNCHANGED <<resource_vars, seat_data, known_devices, current_focus,
                   input_vars, chooser_vars,
                   thread_vars>>

Retained_NotItself(ndd, dd) == dd_alive(ndd)

Retained(ndd, dd) == dd_alive(ndd) /\ ndd # dd

Release(dd) ==
    /\ dd \in 1..Len(dd_client)
    /\ dd_alive(dd)
    /\ IF ~seat_data
       THEN /\ events' = <<Panic("seat_data")>>
            /\ UNCHANGED <<known_devices, dd_released>>
       ELSE /\ known_devices' = SelectSeq(known_devices,
                                          LAMBDA ndd : Retained(ndd, dd))
            /\ dd_released' = dd_released \cup {dd}
            /\ events' = <<>>
    /\ UNCHANGED <<alive_clients, dd_client, src_client, src_meta,
                   src_destroyed, offers, seat_data, selection, current_focus,
                   input_vars, chooser_vars,
                   thread_vars>>

\* ------------------------------------ wl_data_offer: the Receive closures
ClientOfferValid_NoMimeCheck(source, mime_type) == source_alive(source)

ClientOfferValid_NoAliveCheck(source, mime_type) ==
    Contains(with_source_metadata(source).mime_types, mime_type)

ClientOfferValid(source, mime_type) ==
    /\ Contains(with_source_metadata(source).mime_types, mime_type)
    /\ source_alive(source)

ClientOfferReceive(o, mime_type, fd) ==
    (IF ClientOfferValid(offers[o].source, mime_type)
     THEN <<EvSend(offers[o].source, mime_type, fd)>>
     ELSE <<LogDenyReceive(o, mime_type)>>) \o <<EvClose(fd)>>

CompositorOfferValid(offer_meta, mime_type) ==
    Contains(offer_meta.mime_types, mime_type)

CompositorOfferReceive_ClosesFd(o, mime_type, fd) ==
    IF ~CompositorOfferValid(offers[o].meta, mime_type)
    THEN <<LogDenyReceive(o, mime_type), EvClose(fd)>>
    ELSE <<CbSendSelection(mime_type, fd), EvClose(fd)>>

CompositorOfferReceive(o, mime_type, fd) ==
    IF ~CompositorOfferValid(offers[o].meta, mime_type)
    THEN <<LogDenyReceive(o, mime_type), EvClose(fd)>>
    ELSE <<CbSendSelection(mime_type, fd)>>

Receive(o, mime_type, fd) ==
    /\ o \in 1..Len(offers)
    /\ offer_alive(o)
    /\ events' = IF offers[o].kind = "Client"
                 THEN ClientOfferReceive(o, mime_type, fd)
                 ELSE CompositorOfferReceive(o, mime_type, fd)
    /\ UNCHANGED <<resource_vars, offers, seat_data, known_devices, selection,
                   current_focus, input_vars, chooser_vars,
                   thread_vars>>

\* -------------------------------------------- lifetime of clients, sources
ClientDisconnect(client) ==
    /\ client \in alive_clients
    /\ alive_clients' = alive_clients \ {client}
    /\ events' = <<>>
    /\ UNCHANGED <<dd_client, dd_released, src_client, src_meta,
                   src_destroyed, offers, seat_data, known_devices, selection,
                   current_focus, input_vars, chooser_vars,
                   thread_vars>>

SourceDestroy(s) ==
    /\ s \in 1..Len(src_client)
    /\ source_alive(s)
    /\ src_destroyed' = src_destroyed \cup {s}
    /\ events' = <<>>
    /\ UNCHANGED <<alive_clients, dd_client, dd_released, src_client,
                   src_meta, offers, seat_data, known_devices, selection,
                   current_focus, input_vars, chooser_vars,
                   thread_vars>>

\* ------------------------------------------------------ the seat's pointer
AddPointer ==
    /\ ~pointer.present
    /\ pointer' = [present |-> TRUE, grab |-> NoGrab]
    /\ events' = <<>>
    /\ UNCHANGED <<resource_vars, offers, seat_data, known_devices, selection,
                   current_focus, chooser_vars,
                   thread_vars>>

PointerPress(serial) ==
    /\ pointer.present
    /\ pointer.grab.kind = "none"
    /\ pointer' = [pointer EXCEPT !.grab =
                      [kind |-> "implicit", serial |-> serial, source |-> 0,
                       meta |-> NoMeta]]
    /\ events' = <<>>
    /\ UNCHANGED <<resource_vars, offers, seat_data, known_devices, selection,
                   current_focus, chooser_vars,
                   thread_vars>>

PointerUngrab ==
    /\ pointer.present
    /\ pointer.grab.kind # "none"
    /\ pointer' = [pointer EXCEPT !.grab = NoGrab]
    /\ events' = <<>>
    /\ UNCHANGED <<resource_vars, offers, seat_data, known_devices, selection,
                   current_focus, chooser_vars,
                   thread_vars>>

\* -------------------------------------------------- default_action_chooser
Bit(x, k) == (x \div k) % 2

BitAnd(a, b) ==
    Bit(a, 1) * Bit(b, 1) + 2 * Bit(a, 2) * Bit(b, 2)
    + 4 * Bit(a, 4) * Bit(b, 4)

contains(flags, other) == BitAnd(flags, other) = other

default_action_chooser_CopyFirst(avail, pref) ==
    IF pref \in {DndMove, DndCopy, DndAsk} /\ contains(avail, pref)
    THEN pref
    ELSE IF contains(avail, DndCopy) THEN DndCopy
    ELSE IF contains(avail, DndAsk) THEN DndAsk
    ELSE IF contains(avail, DndMove) THEN DndMove
    ELSE DndNone

default_action_chooser(avail, pref) ==
    IF pref \in {DndMove, DndCopy, DndAsk} /\ contains(avail, pref)
    THEN pref
    ELSE IF contains(avail, DndAsk) THEN DndAsk
    ELSE IF contains(avail, DndCopy) THEN DndCopy
    ELSE IF contains(avail, DndMove) THEN DndMove
    ELSE DndNone

Choose ==
    /\ chosen = -1
    /\ chosen' = default_action_chooser(available, preferred)
    /\ UNCHANGED <<resource_vars, offers, seat_data, known_devices, selection,
                   current_focus, input_vars, events, available,
                   preferred, thread_vars>>

InitChooser ==
    /\ alive_clients = Clients
    /\ dd_client = <<>>
    /\ dd_released = {}
    /\ src_client = <<>>
    /\ src_meta = <<>>
    /\ src_destroyed = {}
    /\ offers = <<>>
    /\ seat_data = FALSE
    /\ known_devices = <<>>
    /\ selection = SelectionEmpty
    /\ current_focus = NoClient
    /\ pointer = [present |-> FALSE, grab |-> NoGrab]
    /\ events = <<>>
    /\ available \in DndActions
    /\ preferred \in DndActions
    /\ chosen = -1
    /\ mutex = 0
    /\ pc = [t \in Threads |-> "idle"]
    /\ call = [t \in Threads |-> NoCall]
    /\ seen = [t \in Threads |-> NoTriple]

NextChooser == Choose

SpecChooser == InitChooser /\ [][NextChooser]_vars

\* -------------------------------------------------------------------- Next
\* the selection registry and the requests that reach it
Next ==
    \/ \E c \in Clients \cup {NoClient} : set_data_device_focus(c)
    \/ \E m \in CompositorMimeLists : set_data_device_selection(m)
    \/ \E c \in Clients, m \in SourceMimeLists : CreateDataSource(c, m)
    \/ \E c \in Clients :
          Len(dd_client) + 1 \in FewDeviceIds /\ GetDataDevice(c)
    \/ \E dd \in DeviceIds, s \in {0} \cup SourceIds, serial \in Serials,
          kbd \in KeyboardAnswers :
          SetSelection(dd, s, serial, kbd)
    \/ \E dd \in DeviceIds : Release(dd)
    \/ \E o \in 1..MaxOffers, m \in MimeTypes, fd \in Fds : Receive(o, m, fd)
    \/ \E c \in Clients : ClientDisconnect(c)
    \/ \E s \in SourceIds : SourceDestroy(s)

Spec == Init /\ [][Next]_vars

\* the pointer grab and the requests and calls that start a drag
NextDrag ==
    \/ \E serial \in Serials, m \in CompositorMimeLists :
          start_dnd(serial, SourceMetadata(m, DndCopy))
    \/ \E c \in Clients, m \in SourceMimeLists : CreateDataSource(c, m)
    \/ \E c \in Clients : GetDataDevice(c)
    \/ \E dd \in DeviceIds, s \in {0} \cup SourceIds, serial \in Serials :
          StartDrag(dd, s, serial)
    \/ \E dd \in DeviceIds : Release(dd)
    \/ \E c \in Clients : ClientDisconnect(c)
    \/ \E s \in SourceIds : SourceDestroy(s)
    \/ AddPointer
    \/ \E serial \in Serials : PointerPress(serial)
    \/ PointerUngrab

SpecDrag == Init /\ [][NextDrag]_vars

\* the registry of data devices, with the broadcasts that walk it
NextRegistry ==
    \/ \E c \in Clients \cup {NoClient} : set_data_device_focus(c)
    \/ \E m \in CompositorMimeLists : set_data_device_selection(m)
    \/ \E c \in Clients : GetDataDevice(c)
    \/ \E dd \in DeviceIds : Release(dd)
    \/ \E c \in Clients : ClientDisconnect(c)

SpecRegistry == Init /\ [][NextRegistry]_vars

\* ------------------------------------------- the calls, lock by lock
\* the same calls taken apart at the points where another thread can run:
\* before seat_data.lock(), while the guard is held, and at its drop
enter_set_data_device_focus(t, client) ==
    /\ pc[t] = "idle"
    /\ seat_data' = TRUE
    /\ call' = [call EXCEPT ![t] = [op |-> "set_focus", client |-> client,
                                    sel |-> SelectionEmpty, dd |-> 0]]
    /\ pc' = [pc EXCEPT ![t] = "lock"]
    /\ events' = <<>>
    /\ UNCHANGED <<resource_vars, offers, known_devices, selection,
                   current_focus, input_vars, chooser_vars, mutex, seen>>

enter_set_data_device_selection(t, mime_types) ==
    /\ pc[t] = "idle"
    /\ seat_data' = TRUE
    /\ call' = [call EXCEPT ![t] =
                   [op |-> "set_selection", client |-> NoClient,
                    sel |-> SelectionCompositor(
                               SourceMetadata(mime_types, DndNone)),
                    dd |-> 0]]
    /\ pc' = [pc EXCEPT ![t] = "lock"]
    /\ events' = <<>>
    /\ UNCHANGED <<resource_vars, offers, known_devices, selection,
                   current_focus, input_vars, chooser_vars, mutex, seen>>

enter_GetDataDevice(t, client) ==
    /\ pc[t] = "idle"
    /\ client \in alive_clients
    /\ Len(dd_client) + 1 \in FewDeviceIds
    /\ seat_data' = TRUE
    /\ dd_client' = Append(dd_client, client)
    /\ call' = [call EXCEPT ![t] = [op |-> "GetDataDevice", client |-> client,
                                    sel |-> SelectionEmpty,
                                    dd |-> Len(dd_client) + 1]]
    /\ pc' = [pc EXCEPT ![t] = "lock"]
    /\ events' = <<>>
    /\ UNCHANGED <<alive_clients, dd_released, src_client, src_meta,
                   src_destroyed, offers, known_devices, selection,
                   current_focus, input_vars, chooser_vars, mutex, seen>>

enter_Release(t, dd) ==
    /\ pc[t] = "idle"
    /\ dd \in 1..Len(dd_client)
    /\ dd_alive(dd)
    /\ \A u \in Threads : call[u].dd # dd
    /\ call' = [call EXCEPT ![t] = [op |-> "Release", client |-> NoClient,
                                    sel |-> SelectionEmpty, dd |-> dd]]
    /\ pc' = [pc EXCEPT ![t] = "lock"]
    /\ events' = <<>>
    /\ UNCHANGED <<resource_vars, offers, seat_data, known_devices, selection,
                   current_focus, input_vars, chooser_vars, mutex, seen>>

MutexFree_Always(holder) == TRUE

MutexFree(holder) == holder = 0

mutex_lock(t) ==
    /\ pc[t] = "lock"
    /\ MutexFree(mutex)
    /\ mutex' = t
    /\ pc' = [pc EXCEPT ![t] = "locked"]
    /\ events' = <<>>
    /\ UNCHANGED <<resource_vars, offers, seat_data, known_devices, selection,
                   current_focus, input_vars, chooser_vars, call, seen>>

replace_current_focus(t) ==
    /\ pc[t] = "locked"
    /\ call[t].op = "set_focus"
    /\ current_focus' = call[t].client
    /\ seen' = [seen EXCEPT ![t] =
                   Triple(selection, call[t].client, known_devices)]
    /\ pc' = [pc EXCEPT ![t] = "send"]
    /\ events' = <<>>
    /\ UNCHANGED <<resource_vars, offers, seat_data, known_devices, selection,
                   input_vars, chooser_vars, mutex, call>>

replace_selection(t) ==
    /\ pc[t] = "locked"
    /\ call[t].op = "set_selection"
    /\ selection' = call[t].sel
    /\ seen' = [seen EXCEPT ![t] =
                   Triple(call[t].sel, current_focus, known_devices)]
    /\ pc' = [pc EXCEPT ![t] = "send"]
    /\ events' = <<>>
    /\ UNCHANGED <<resource_vars, offers, seat_data, known_devices,
                   current_focus, input_vars, chooser_vars, mutex, call>>

broadcast(t) ==
    LET r == send_selection(selection, current_focus, known_devices, offers)
    IN
    /\ pc[t] = "send"
    /\ Len(r.offers) <= MaxOffers
    /\ selection' = r.selection
    /\ offers' = r.offers
    /\ events' = r.events
    /\ pc' = [pc EXCEPT ![t] = "unlock"]
    /\ UNCHANGED <<resource_vars, seat_data, known_devices, current_focus,
                   input_vars, chooser_vars, mutex, call, seen>>

push_known_device(t) ==
    /\ pc[t] = "locked"
    /\ call[t].op = "GetDataDevice"
    /\ known_devices' = Append(known_devices, call[t].dd)
    /\ pc' = [pc EXCEPT ![t] = "unlock"]
    /\ events' = <<>>
    /\ UNCHANGED <<resource_vars, offers, seat_data, selection, current_focus,
                   input_vars, chooser_vars, mutex, call, seen>>

retain_known_devices(t) ==
    /\ pc[t] = "locked"
    /\ call[t].op = "Release"
    /\ known_devices' = SelectSeq(known_devices,
                                  LAMBDA ndd : Retained(ndd, call[t].dd))
    /\ dd_released' = dd_released \cup {call[t].dd}
    /\ pc' = [pc EXCEPT ![t] = "unlock"]
    /\ events' = <<>>
    /\ UNCHANGED <<alive_clients, dd_client, src_client, src_meta,
                   src_destroyed, offers, seat_data, selection, current_focus,
                   input_vars, chooser_vars, mutex, call, seen>>

mutex_unlock(t) ==
    /\ pc[t] = "unlock"
    /\ mutex' = 0
    /\ pc' = [pc EXCEPT ![t] = "idle"]
    /\ call' = [call EXCEPT ![t] = NoCall]
    /\ seen' = [seen EXCEPT ![t] = NoTriple]
    /\ events' = <<>>
    /\ UNCHANGED <<resource_vars, offers, seat_data, known_devices, selection,
                   current_focus, input_vars, chooser_vars>>

NextMutex ==
    \/ \E t \in Threads, c \in Clients \cup {NoClient} :
          enter_set_data_device_focus(t, c)
    \/ \E t \in Threads, m \in CompositorMimeLists :
          enter_set_data_device_selection(t, m)
    \/ \E t \in Threads, c \in Clients : enter_GetDataDevice(t, c)
    \/ \E t \in Threads, dd \in DeviceIds : enter_Release(t, dd)
    \/ \E t \in Threads : mutex_lock(t)
    \/ \E t \in Threads : replace_current_focus(t)
    \/ \E t \in Threads : replace_selection(t)
    \/ \E t \in Threads : broadcast(t)
    \/ \E t \in Threads : push_known_device(t)
    \/ \E t \in Threads : retain_known_devices(t)
    \/ \E t \in Threads : mutex_unlock(t)

SpecMutex == Init /\ [][NextMutex]_vars

\* =============================================================== properties
IsDeviceEvent(e) == e.type \in {"DataOffer", "Selection"}

HasEvent(evs, type) == \E i \in 1..Len(evs) : evs[i].type = type

\* the known devices a broadcast for `client` serves, in order
FocusDevices(client) ==
    SelectSeq(known_devices,
              LAMBDA dd : dd_client[dd] \in alive_clients
                          /\ dd \notin dd_released /\ dd_client[dd] = client)

ClearedEvents(client) ==
    [i \in 1..Len(FocusDevices(client)) |->
        EvSelection(FocusDevices(client)[i], 0)]

\* C1: every event a broadcast sends to a data device (DataOffer,
\* Selection with or without an offer) goes to a device owned by the
\* client that is current_focus at that broadcast, and every Offer event
\* goes to an offer created for that client; devices of other clients get
\* nothing.
C1_OnlyFocusedClientReceives ==
    \A i \in 1..Len(events) :
        /\ IsDeviceEvent(events[i]) =>
              dd_client[events[i].dev] = current_focus
        /\ events[i].type = "Offer" =>
              offers[events[i].offer].client = current_focus

\* a non-empty selection was just offered while a live device of another
\* client was registered
C1_Witness ==
    /\ \E i \in 1..Len(events) :
          events[i].type = "Selection" /\ events[i].offer # 0
    /\ \E dd \in Range(known_devices) :
          dd_client[dd] \in alive_clients /\ dd \notin dd_released
          /\ dd_client[dd] # current_focus

DeadClientSelection ==
    /\ selection.tag = "Client"
    /\ ~(src_client[selection.source] \in alive_clients
         /\ selection.source \notin src_destroyed)

\* a step of a call that leaves resources and registrations alone and is
\* not a receive
RegistryCallStep ==
    /\ UNCHANGED <<resource_vars, known_devices>>
    /\ ~HasEvent(events', "Close")
    /\ ~HasEvent(events', "SendSelection")

\* a step in which send_selection runs with a focused client
FocusedBroadcastStep ==
    /\ RegistryCallStep
    /\ \/ \E c \in Clients : set_data_device_focus(c)
       \/ /\ current_focus # NoClient
          /\ \E m \in CompositorMimeLists : set_data_device_selection(m)
       \/ /\ current_focus # NoClient
          /\ \E dd \in 1..Len(dd_client), s \in {0} \cup SourceIds,
                serial \in Serials :
                SetSelection(dd, s, serial, "has focus")

\* C2 as stated: whenever the selection is ClientOwned with a dead source,
\* the next broadcast with a focused client, whether set_focus or
\* set_selection triggers it, leaves the selection Empty, creates no offer
\* and sends Selection{None} to each device of the focused client.
C2_Original ==
    [][(DeadClientSelection /\ FocusedBroadcastStep) =>
          /\ selection' = SelectionEmpty
          /\ offers' = offers
          /\ \A c \in Clients : current_focus' = c =>
                SelectSeq(events', IsDeviceEvent) = ClearedEvents(c)]_vars

\* C2 amended: when the selection is ClientOwned with a dead source and
\* set_focus(c) runs with a client c, the selection becomes Empty, no offer
\* is created and exactly Selection{None} is sent to each live device of c;
\* a set_selection replaces the dead selection before its broadcast runs,
\* so the selection it leaves is the one just set.
C2_DeadSelectionClearedOnFocus ==
    [][/\ \A c \in Clients :
             (DeadClientSelection /\ set_data_device_focus(c)) =>
                /\ selection' = SelectionEmpty
                /\ offers' = offers
                /\ SelectSeq(events', IsDeviceEvent) = ClearedEvents(c)
       /\ \A m \in CompositorMimeLists :
             (DeadClientSelection /\ set_data_device_selection(m)) =>
                selection' = SelectionCompositor(SourceMetadata(m, DndNone))
      ]_vars

\* a broadcast just reset a dead client selection and told a device of the
\* focused client that the selection is empty
C2_Witness ==
    /\ Len(events) >= 2
    /\ events[1].type = "selection reset"
    /\ selection = SelectionEmpty
    /\ events[2] \in {EvSelection(dd, 0) : dd \in Range(known_devices)}
    /\ dd_client[events[2].dev] = current_focus

OfferMeta(o) ==
    IF offers[o].kind = "Client" THEN src_meta[offers[o].source]
    ELSE offers[o].meta

\* C3: a receive on a selection offer (client- or compositor-owned) for a
\* mime type that is not among the mime types of the offer's metadata
\* sends no Send event, invokes no callback and closes the fd.
C3_ReceiveUnknownMimeDenied ==
    [][\A o \in 1..Len(offers), m \in MimeTypes, fd \in Fds :
          (Receive(o, m, fd) /\ m \notin Range(OfferMeta(o).mime_types)) =>
             /\ ~HasEvent(events', "Send")
             /\ ~HasEvent(events', "SendSelection")
             /\ \E i \in 1..Len(events') : events'[i] = EvClose(fd)]_vars

\* a receive was just denied on an offer of a live client source, for a
\* mime type the source does not offer, and the fd was closed
C3_Witness ==
    /\ Len(events) = 2
    /\ events[1].type = "debug: Denying a wl_data_offer.receive"
    /\ offers[events[1].offer].kind = "Client"
    /\ src_client[offers[events[1].offer].source] \in alive_clients
    /\ offers[events[1].offer].source \notin src_destroyed
    /\ events[1].mime \notin
          Range(src_meta[offers[events[1].offer].source].mime_types)
    /\ events[2].type = "Close"

\* C4: a SetSelection from a client that does not hold the keyboard focus,
\* or on a seat without keyboard, changes neither the selection nor the
\* offers, invokes no NewSelection callback and sends no event.
C4_UnfocusedSetSelectionDenied ==
    [][\A dd \in 1..Len(dd_client), s \in {0} \cup SourceIds, serial \in Serials,
          kbd \in {"no keyboard", "no focus"} :
          SetSelection(dd, s, serial, kbd) =>
             /\ selection' = selection
             /\ offers' = offers
             /\ ~HasEvent(events', "NewSelection")
             /\ \A i \in 1..Len(events') :
                   ~IsDeviceEvent(events'[i]) /\ events'[i].type # "Offer"
       ]_vars

\* a SetSelection was just denied while the focused data-device client
\* has a live device that a broadcast would serve
C4_Witness ==
    /\ events = <<LogDenySelection>>
    /\ current_focus # NoClient
    /\ Len(FocusDevices(current_focus)) > 0

\* C5: a StartDrag whose serial matches no active grab of the seat's
\* pointer, or on a seat without pointer, leaves the pointer and its grab
\* unchanged and does not invoke the DnDStarted callback.
C5_StartDragWithoutGrabDenied ==
    [][\A dd \in 1..Len(dd_client), s \in {0} \cup SourceIds, serial \in Serials :
          (/\ StartDrag(dd, s, serial)
           /\ ~(/\ pointer.present
                /\ pointer.grab.kind # "none"
                /\ pointer.grab.serial = serial)) =>
             /\ pointer' = pointer
             /\ ~HasEvent(events', "DnDStarted")]_vars

\* a StartDrag was just denied while the pointer held an implicit grab
\* (with another serial), and the grab is still the implicit one
C5_Witness ==
    /\ events = <<LogDenyDrag>>
    /\ pointer.present
    /\ pointer.grab.kind = "implicit"

SrcAlive(s) == src_client[s] \in alive_clients /\ s \notin src_destroyed

Forwarded(evs) == HasEvent(evs, "Send") \/ HasEvent(evs, "SendSelection")

\* C6 as stated: a receive on a selection offer is forwarded to the source
\* or to the compositor callback only if the requesting client is
\* current_focus at the time of the request.
C6_Original ==
    [][\A o \in 1..Len(offers), m \in MimeTypes, fd \in Fds :
          (Receive(o, m, fd) /\ Forwarded(events')) =>
             offers[o].client = current_focus]_vars

\* C6 amended: every offer is created for the client that is current_focus
\* at the broadcast that creates it and never changes afterwards; a receive
\* on an offer is forwarded exactly when the mime type is among those of
\* the offer's metadata and, for a client-owned offer, the source is alive,
\* whether or not the requesting client still holds the focus.
C6_OfferBoundToFocusAtCreation ==
    [][/\ \A o \in 1..Len(offers') :
             IF o <= Len(offers) THEN offers'[o] = offers[o]
             ELSE offers'[o].client = current_focus'
                  /\ current_focus' # NoClient
       /\ \A o \in 1..Len(offers), m \in MimeTypes, fd \in Fds :
             Receive(o, m, fd) =>
                (Forwarded(events') <=>
                    /\ m \in Range(OfferMeta(o).mime_types)
                    /\ offers[o].kind = "Client" =>
                          SrcAlive(offers[o].source))]_vars

\* a receive was just forwarded to a source although no offer belongs to
\* the client that is focused now
C6_Witness ==
    /\ HasEvent(events, "Send")
    /\ Len(offers) > 0
    /\ \A o \in 1..Len(offers) : offers[o].client # current_focus

\* device dd is sent DataOffer{o}, Offer events for exactly the mime types
\* `mimes` and Selection{Some(o)}
Advertised(evs, dd, o, mimes) ==
    /\ \E i, j \in 1..Len(evs) :
          i < j /\ evs[i] = EvDataOffer(dd, o) /\ evs[j] = EvSelection(dd, o)
    /\ {evs[k].mime : k \in {n \in 1..Len(evs) :
                               evs[n].type = "Offer" /\ evs[n].offer = o}}
          = Range(mimes)

IsSend(e) == e.type = "Send"

\* C7: when a client holding keyboard focus and data-device focus sets the
\* selection to its source with mime types M, its device receives a new
\* offer advertising exactly M; when the focus then moves to a client, each
\* of its devices receives a new offer advertising M; a receive for a mime
\* type of M on such an offer, the source being alive, produces exactly one
\* Send event on that source, with that mime type and fd.
C7_EndToEnd ==
    [][/\ \A dd \in 1..Len(dd_client), s \in SourceIds,
             serial \in Serials :
             (/\ SetSelection(dd, s, serial, "has focus")
              /\ current_focus = dd_client[dd]) =>
                \E o \in (Len(offers) + 1)..Len(offers') :
                    Advertised(events', dd, o, src_meta[s].mime_types)
       /\ \A c \in Clients :
             (/\ set_data_device_focus(c)
              /\ selection.tag = "Client"
              /\ SrcAlive(selection.source)) =>
                \A dd \in Range(FocusDevices(c)) :
                    \E o \in (Len(offers) + 1)..Len(offers') :
                        Advertised(events', dd, o,
                                   src_meta[selection.source].mime_types)
       /\ \A o \in 1..Len(offers), m \in MimeTypes, fd \in Fds :
             (/\ Receive(o, m, fd)
              /\ offers[o].kind = "Client"
              /\ m \in Range(src_meta[offers[o].source].mime_types)
              /\ SrcAlive(offers[o].source)) =>
                SelectSeq(events', IsSend)
                    = <<EvSend(offers[o].source, m, fd)>>]_vars

\* the source of client A just got a Send event while the focus is on
\* another client B that holds an offer for it, A holding an earlier one
C7_Witness ==
    /\ Len(events) > 0
    /\ events[1].type = "Send"
    /\ \E o1, o2 \in 1..Len(offers) :
          /\ o1 < o2
          /\ offers[o1].source = events[1].src
          /\ offers[o2].source = events[1].src
          /\ offers[o1].client = src_client[events[1].src]
          /\ offers[o2].client # src_client[events[1].src]
          /\ offers[o2].client = current_focus

\* C8: a receive on a client-owned offer whose source has died since the
\* offer was created sends no Send event and closes the fd.
C8_ReceiveOnDeadSourceDenied ==
    [][\A o \in 1..Len(offers), m \in MimeTypes, fd \in Fds :
          (/\ Receive(o, m, fd)
           /\ offers[o].kind = "Client"
           /\ ~SrcAlive(offers[o].source)) =>
             /\ ~HasEvent(events', "Send")
             /\ \E i \in 1..Len(events') : events'[i] = EvClose(fd)]_vars

\* a receive for a mime type the source offers was just denied because the
\* source is dead, and the fd was closed
C8_Witness ==
    /\ Len(events) = 2
    /\ events[1].type = "debug: Denying a wl_data_offer.receive"
    /\ offers[events[1].offer].kind = "Client"
    /\ ~SrcAlive(offers[events[1].offer].source)
    /\ events[1].mime \in
          Range(src_meta[offers[events[1].offer].source].mime_types)
    /\ events[2].type = "Close"

Actions == {"Copy", "Move", "Ask"}

ActionBit(a) == IF a = "Copy" THEN 1 ELSE IF a = "Move" THEN 2 ELSE 4

RECURSIVE ToBits(_)
ToBits(S) ==
    IF S = {} THEN 0
    ELSE LET a == CHOOSE x \in S : TRUE IN ActionBit(a) + ToBits(S \ {a})

FromBits(bits) == CHOOSE S \in SUBSET Actions : ToBits(S) = bits

ExpectedChoice(avail, pref) ==
    IF Cardinality(pref) = 1 /\ pref \subseteq avail THEN pref
    ELSE IF "Ask" \in avail THEN {"Ask"}
    ELSE IF "Copy" \in avail THEN {"Copy"}
    ELSE IF "Move" \in avail THEN {"Move"}
    ELSE {}

\* C9: default_action_chooser returns preferred when preferred is a single
\* action contained in available, otherwise the first of Ask, Copy, Move
\* contained in available, otherwise the empty set; the result is empty or
\* a single action of available, and the four examples of the
\* specification hold.
C9_DefaultActionChooser ==
    chosen # -1 =>
       /\ chosen \in DndActions
       /\ FromBits(chosen)
             = ExpectedChoice(FromBits(available), FromBits(preferred))
       /\ Cardinality(FromBits(chosen)) <= 1
       /\ FromBits(chosen) \subseteq FromBits(available)
       /\ (available = 3 /\ preferred = 1) => chosen = 1
       /\ (available = 3 /\ preferred = 4) => chosen = 1
       /\ (available = 2 /\ preferred = 1) => chosen = 2
       /\ available = 0 => chosen = 0

\* the chooser was called with available = {Copy, Ask} and a preferred
\* set of two actions, and fell back to Ask
C9_Witness ==
    /\ chosen = 4
    /\ available = 5
    /\ preferred = 3

\* C10 as stated: after a broadcast that runs with a focused client,
\* known_devices holds no dead handle.
C10_NoDeadDeviceAfterBroadcast ==
    [][FocusedBroadcastStep =>
          \A dd \in Range(known_devices') :
              dd_client'[dd] \in alive_clients' /\ dd \notin dd_released'
      ]_vars

\* C11: no sequence of operations, client disconnects and source deaths
\* reaches an unwrap() with a missing value: no broadcast creates an offer
\* for a dead focused client or reads the metadata of a dead selection
\* source, and whenever a data device exists (so that a SetSelection or
\* Release handler can run) the seat's registry is present.
C11_NoPanic ==
    /\ \A i \in 1..Len(events) : events[i].type # "panic"
    /\ Len(dd_client) > 0 => seat_data

\* a broadcast for a live focused client just reset the selection of a dead
\* source and served a device while known_devices also holds the dead
\* device of a disconnected client
C11_Witness ==
    /\ Len(events) >= 2
    /\ events[1].type = "selection reset"
    /\ events[2].type = "Selection"
    /\ current_focus \in alive_clients
    /\ \E dd \in Range(known_devices) : dd_client[dd] \notin alive_clients

\* C12: every read and write of selection, current_focus and known_devices
\* is made by the thread that holds the seat's mutex, and under any
\* interleaving of set_focus, set_selection, GetDataDevice and Release
\* calls a broadcast runs on exactly the (selection, current_focus,
\* known_devices) triple its own call left when it replaced its field:
\* replacement and broadcast are one atomic step.
C12_MutexAtomicBroadcast ==
    [][/\ \A t \in Threads :
             pc'[t] \in {"locked", "send", "unlock"} => mutex' = t
       /\ \A t \in Threads :
             <<selection, current_focus, known_devices>>
                # <<selection', current_focus', known_devices'>>
             => (mutex = t <=> pc'[t] # pc[t])
       /\ \A t \in Threads :
             (pc[t] = "send" /\ pc'[t] = "unlock") =>
                /\ Triple(selection, current_focus, known_devices) = seen[t]
                /\ events' = send_selection(seen[t].selection,
                                            seen[t].current_focus,
                                            seen[t].known_devices,
                                            offers).events]_vars

\* a thread has just broadcast the selection to a device while the other
\* thread, inside a set_focus or set_selection call, waits for the mutex
C12_Witness ==
    \E t, u \in Threads :
        /\ pc[t] = "unlock"
        /\ HasEvent(events, "Selection")
        /\ pc[u] = "lock"
        /\ call[u].op \in {"set_focus", "set_selection"}

\* C13: Release on a data device removes that handle from known_devices;
\* every other handle that is still alive stays, in its original relative
\* order; selection and current_focus are unchanged and no event is sent.
C13_ReleaseRemovesOnlyThatHandle ==
    [][\A dd \in DeviceIds :
          Release(dd) =>
             /\ dd \notin Range(known_devices')
             /\ SelectSeq(known_devices',
                          LAMBDA n : n # dd /\ n \notin dd_released
                                     /\ dd_client[n] \in alive_clients)
                   = SelectSeq(known_devices,
                               LAMBDA n : n # dd /\ n \notin dd_released
                                          /\ dd_client[n] \in alive_clients)
             /\ selection' = selection
             /\ current_focus' = current_focus
             /\ offers' = offers
             /\ events' = <<>>]_vars

\* the second of three devices was released: the two others are still
\* registered in their order, under a compositor selection and a focused
\* client
C13_Witness ==
    /\ dd_released = {2}
    /\ known_devices = <<1, 3>>
    /\ selection.tag = "Compositor"
    /\ current_focus \in alive_clients
    /\ events = <<>>

\* C14 as stated: in every reachable state known_devices holds at most one
\* data device handle per client and only live handles.
C14_OneLiveHandlePerClient ==
    /\ \A i, j \in 1..Len(known_devices) :
          i # j => dd_client[known_devices[i]] # dd_client[known_devices[j]]
    /\ \A dd \in Range(known_devices) :
          dd_client[dd] \in alive_clients /\ dd \notin dd_released

\* C15: start_dnd on a seat without pointer installs no grab, invokes no
\* callback and leaves selection, current_focus and known_devices as they
\* are, the registry being at most created in its initial empty state; on
\* a seat with a pointer it installs the server drag grab with the given
\* serial.
C15_StartDndWithoutPointerNoOp ==
    [][\A serial \in Serials, m \in CompositorMimeLists :
          start_dnd(serial, SourceMetadata(m, DndCopy)) =>
             /\ ~pointer.present =>
                   /\ pointer' = pointer
                   /\ events' = <<>>
                   /\ selection' = selection
                   /\ current_focus' = current_focus
                   /\ known_devices' = known_devices
                   /\ offers' = offers
                   /\ ~seat_data =>
                         /\ selection' = SelectionEmpty
                         /\ current_focus' = NoClient
                         /\ known_devices' = <<>>
             /\ pointer.present =>
                   /\ pointer'.present
                   /\ pointer'.grab.kind = "server_dnd"
                   /\ pointer'.grab.serial = serial
                   /\ pointer'.grab.meta = SourceMetadata(m, DndCopy)]_vars

\* start_dnd has run on a seat that has no pointer and no data device: the
\* registry exists, empty, and there is no grab
C15_Witness ==
    /\ seat_data
    /\ Len(dd_client) = 0
    /\ ~pointer.present
    /\ pointer.grab = NoGrab
    /\ known_devices = <<>>

\* C16: a broadcast that runs while no client is focused (set_focus(None),
\* or a set_selection while current_focus is none) sends no event to any
\* device or offer, creates no offer and changes nothing but the field its
\* caller replaced; a ClientOwned selection whose source is dead is not
\* demoted by it, and stays as it is as long as no client is focused and
\* no set_selection replaces it.
C16_UnfocusedBroadcastIsSilent ==
    [][/\ set_data_device_focus(NoClient) =>
             /\ events' = <<>>
             /\ offers' = offers
             /\ selection' = selection
             /\ known_devices' = known_devices
       /\ \A m \in CompositorMimeLists :
             (current_focus = NoClient /\ set_data_device_selection(m)) =>
                /\ events' = <<>>
                /\ offers' = offers
                /\ selection' = SelectionCompositor(SourceMetadata(m, DndNone))
                /\ current_focus' = NoClient
                /\ known_devices' = known_devices
       /\ \A dd \in 1..Len(dd_client), s \in {0} \cup SourceIds,
             serial \in Serials :
             (current_focus = NoClient
              /\ SetSelection(dd, s, serial, "has focus")) =>
                /\ events' = <<CbNewSelection(s)>>
                /\ offers' = offers
                /\ selection' = IF s = 0 THEN SelectionEmpty
                                ELSE SelectionClient(s)
                /\ current_focus' = NoClient
                /\ known_devices' = known_devices
       /\ (/\ DeadClientSelection
           /\ current_focus' = NoClient
           /\ ~\E m \in CompositorMimeLists : set_data_device_selection(m)
           /\ ~\E dd \in 1..Len(dd_client), s \in {0} \cup SourceIds,
                  serial \in Serials :
                  SetSelection(dd, s, serial, "has focus")) =>
             selection' = selection]_vars

\* a client just set its source as the selection while no client holds the
\* data-device focus: a live device is registered, yet only the callback
\* ran
C16_Witness ==
    /\ Len(events) = 1
    /\ events[1].type = "NewSelection"
    /\ events[1].src # 0
    /\ selection = SelectionClient(events[1].src)
    /\ current_focus = NoClient
    /\ \E dd \in Range(known_devices) :
          dd_client[dd] \in alive_clients /\ dd \notin dd_released

\* the positions of evs that hold a Selection event matching `test`
SelectionEventsAt(evs, test(_)) ==
    {i \in 1..Len(evs) : evs[i].type = "Selection" /\ test(evs[i])}

\* C17: a broadcast with a focused client and a non-empty selection leaves
\* the existing offers alone and creates one new offer for each live known
\* device of the focused client; each new offer is the id of exactly one
\* Selection event, each such device gets exactly one Selection event,
\* which carries a new offer, and no Selection event carries an offer of
\* an earlier broadcast; this holds as well when the focus or the
\* selection set is the one already in place.
C17_OffersNeverReused ==
    [][(FocusedBroadcastStep /\ selection'.tag # "Empty") =>
          LET devs == FocusDevices(current_focus')
              fresh == (Len(offers) + 1)..Len(offers')
          IN  /\ Len(offers') = Len(offers) + Len(devs)
              /\ \A o \in 1..Len(offers) : offers'[o] = offers[o]
              /\ \A o \in fresh :
                    Cardinality(SelectionEventsAt(events',
                                   LAMBDA e : e.offer = o)) = 1
              /\ \A dd \in Range(devs) :
                    /\ Cardinality(SelectionEventsAt(events',
                                       LAMBDA e : e.dev = dd)) = 1
                    /\ \A i \in SelectionEventsAt(events',
                                     LAMBDA e : e.dev = dd) :
                          events'[i].offer \in fresh
              /\ SelectionEventsAt(events',
                     LAMBDA e : e.offer \notin fresh) = {}]_vars

\* the only data device ever created has just been sent its second offer,
\* for the same selection and the same focused client as its first
C17_Witness ==
    /\ Len(dd_client) = 1
    /\ Len(offers) = 2
    /\ offers[1] = offers[2]
    /\ offers[2].client = current_focus
    /\ \E i \in 1..Len(events) : events[i] = EvSelection(1, 2)

\* the selection an offer was created for is no longer the seat's selection
StaleOffer(o) ==
    [tag |-> offers[o].kind, source |-> offers[o].source,
     meta |-> offers[o].meta] # selection

\* C18 as stated: once set_selection has replaced the selection an offer
\* was created for, a receive on that offer is never forwarded, neither to
\* the earlier selection's source nor to the compositor callback.
C18_StaleOfferReceiveDenied ==
    [][\A o \in 1..Len(offers), m \in MimeTypes, fd \in Fds :
          (Receive(o, m, fd) /\ StaleOffer(o)) =>
             ~Forwarded(events')]_vars

\* the mime types of the metadata of a non-empty selection, in their order
SelectionMimes(sel) ==
    IF sel.tag = "Client" THEN src_meta[sel.source].mime_types
    ELSE sel.meta.mime_types

\* C19: in a broadcast of a non-empty selection, each served device is
\* sent DataOffer{offer}, then exactly one Offer{mime_type} on that offer
\* for every mime type of the selection's metadata, in the metadata's
\* order, then Selection{Some(offer)}; the offer has no other Offer event,
\* and its Selection event follows its DataOffer and all its Offer events.
C19_AdvertiseBeforeSelection ==
    [][(FocusedBroadcastStep /\ selection'.tag # "Empty") =>
          LET mimes == SelectionMimes(selection')
              n == Len(mimes)
          IN  \A dd \in Range(FocusDevices(current_focus')) :
                 \E i \in 1..Len(events') :
                    LET o == events'[i].offer IN
                    /\ events'[i] = EvDataOffer(dd, o)
                    /\ i + n + 1 <= Len(events')
                    /\ \A k \in 1..n : events'[i + k] = EvOffer(o, mimes[k])
                    /\ events'[i + n + 1] = EvSelection(dd, o)
                    /\ \A j \in 1..Len(events') :
                          (events'[j].offer = o /\ events'[j].type = "Offer")
                             => j \in (i + 1)..(i + n)]_vars

\* two devices of the focused client were just served a client selection:
\* each got DataOffer, Offer{text/html}, Offer{text/plain}, Selection
C19_Witness ==
    /\ Len(events) = 8
    /\ selection.tag = "Client"
    /\ events[1] = EvDataOffer(1, 1)
    /\ events[2] = EvOffer(1, "text/html")
    /\ events[3] = EvOffer(1, "text/plain")
    /\ events[4] = EvSelection(1, 1)
    /\ events[5] = EvDataOffer(2, 2)
    /\ events[8] = EvSelection(2, 2)

\* C20: a SetSelection(source) from a client holding keyboard focus
\* invokes the callback exactly once, with NewSelection(source), before
\* anything else; the selection becomes ClientOwned(source), or Empty when
\* no source is given, and the broadcast of that selection follows the
\* callback; the same request with any other serial has the same outcome.
C20_NewSelectionCallbackFirst ==
    [][RegistryCallStep =>
       \A dd \in 1..Len(dd_client), s \in {0} \cup SourceIds,
          serial \in Serials :
          SetSelection(dd, s, serial, "has focus") =>
             LET sel == IF s = 0 THEN SelectionEmpty ELSE SelectionClient(s)
                 r == send_selection(sel, current_focus, known_devices,
                                     offers)
             IN  /\ Len(events') >= 1
                 /\ events'[1] = CbNewSelection(s)
                 /\ \A i \in 2..Len(events') :
                       events'[i].type # "NewSelection"
                 /\ selection' = sel
                 /\ Tail(events') = r.events
                 /\ offers' = r.offers
                 /\ \A serial2 \in Serials :
                       SetSelection(dd, s, serial2, "has focus")]_vars

\* the callback was just told NewSelection(source) and, after it, the
\* device of the focused client was offered that source
C20_Witness ==
    /\ Len(events) > 1
    /\ events[1].type = "NewSelection"
    /\ events[1].src # 0
    /\ events[2].type = "DataOffer"
    /\ selection = SelectionClient(events[1].src)
    /\ events[Len(events)].type = "Selection"

\* C21: a receive(mime_type, fd) on the offer of a compositor-owned
\* selection, the offer carrying the mime types given to
\* set_data_device_selection, with mime_type among them invokes the
\* callback exactly once, with SendSelection{mime_type, fd}, sends nothing
\* to any client source and does not close the fd; the fd is closed
\* exactly when the request is denied, and then no callback is invoked.
C21_CompositorReceiveCallsBack ==
    [][\A o \in 1..Len(offers), m \in MimeTypes, fd \in Fds :
          (Receive(o, m, fd) /\ offers[o].kind = "Compositor") =>
             /\ \E l \in CompositorMimeLists :
                   offers[o].meta = SourceMetadata(l, DndNone)
             /\ IF m \in Range(offers[o].meta.mime_types)
                THEN events' = <<CbSendSelection(m, fd)>>
                ELSE /\ ~HasEvent(events', "SendSelection")
                     /\ ~HasEvent(events', "Send")
                     /\ Cardinality({i \in 1..Len(events') :
                                       events'[i] = EvClose(fd)}) = 1]_vars

\* the callback was just handed SendSelection{image/png, fd} for the offer
\* of a compositor selection held by a live client, and nothing else
\* happened
C21_Witness ==
    /\ events = <<CbSendSelection("image/png", 7)>>
    /\ \E o \in 1..Len(offers) :
          /\ offers[o].kind = "Compositor"
          /\ offers[o].client \in alive_clients
          /\ "image/png" \in Range(offers[o].meta.mime_types)
====
